---- MODULE Spec2Model ----
(***************************************************************************)
(* Model of monthlyexpensesummarizer: the payment-method registry built by *)
(* ParserConfig.__post_init__ (config.py) and the line-scanning parser     *)
(* ExpenseInputFileParser with ParsedExpense.post_init (parser.py).        *)
(*                                                                         *)
(* Python strings are sequences of one-character strings, Python lists are *)
(* sequences (index i of Python is index i+1 here), None is the value None *)
(* and a Python exception is recorded in the variable raised.              *)
(***************************************************************************)
EXTENDS Integers, Sequences, FiniteSets, TLC

\* Longest file, in lines, that the parser is given.
MaxLines == 3
\* Number of successive parse calls made on one parser object.
MaxCalls == 2

None == "None"

Digits == {"0", "1", "2", "3", "4", "5", "6", "7", "8", "9"}
LowerLetters == {"a", "b", "c", "s"}
Alnum == Digits \cup LowerLetters
NL == "\n"
\* Every character that is not the line separator
LineChars == Alnum \cup {" ", ".", "-", "+", "*", "?", "|", "(", ")", "!"}

(***************************************************************************)
(* String helpers (Python str semantics on character sequences)            *)
(***************************************************************************)
Drop(s, n) == SubSeq(s, n + 1, Len(s))
Take(s, n) == SubSeq(s, 1, n)

\* Python `sub in s`
StrContains(sub, s) ==
    \E i \in 0..(Len(s) - Len(sub)) : SubSeq(s, i + 1, i + Len(sub)) = sub

\* Python `s.isspace()`: non-empty and every character is whitespace
IsSpace(s) == Len(s) > 0 /\ \A i \in 1..Len(s) : s[i] \in {" ", NL}

\* Python `s.replace(sub, "")`
RECURSIVE RemoveSub(_, _)
RemoveSub(s, sub) ==
    IF s = <<>> \/ sub = <<>> THEN s
    ELSE IF Len(sub) <= Len(s) /\ Take(s, Len(sub)) = sub
    THEN RemoveSub(Drop(s, Len(sub)), sub)
    ELSE <<Head(s)>> \o RemoveSub(Tail(s), sub)

\* Python `"\n".join(list_of_lines)`
RECURSIVE JoinLines(_)
JoinLines(ls) ==
    IF ls = <<>> THEN <<>>
    ELSE IF Len(ls) = 1 THEN ls[1]
    ELSE ls[1] \o <<NL>> \o JoinLines(Tail(ls))

\* Length of the longest prefix of s whose characters are all in set
RECURSIVE SpanLen(_, _)
SpanLen(s, set) ==
    IF s = <<>> \/ Head(s) \notin set THEN 0 ELSE 1 + SpanLen(Tail(s), set)

\* Python `s.find(c)` and `s.rfind(c)` for a one-character c: -1 when absent
FindChar(s, c) ==
    IF \E i \in 1..Len(s) : s[i] = c
    THEN (CHOOSE i \in 1..Len(s) : s[i] = c /\ \A j \in 1..(i - 1) : s[j] # c) - 1
    ELSE -1
RFindChar(s, c) ==
    IF \E i \in 1..Len(s) : s[i] = c
    THEN (CHOOSE i \in 1..Len(s) : s[i] = c /\ \A j \in (i + 1)..Len(s) : s[j] # c) - 1
    ELSE -1

\* Python `s.count(c)` for a one-character c
CountChar(s, c) == Cardinality({ i \in 1..Len(s) : s[i] = c })

\* Python `s[a:b]` for 0 <= a, 0 <= b
Slice(s, a, b) == SubSeq(s, a + 1, IF b < Len(s) THEN b ELSE Len(s))

\* Python `s.replace(old, new)` for a non-empty old
RECURSIVE ReplaceSub(_, _, _)
ReplaceSub(s, old, new) ==
    IF s = <<>> THEN s
    ELSE IF Len(old) <= Len(s) /\ Take(s, Len(old)) = old
    THEN new \o ReplaceSub(Drop(s, Len(old)), old, new)
    ELSE <<Head(s)>> \o ReplaceSub(Tail(s), old, new)

\* Python str(n) for n >= 0
RECURSIVE IntToStr(_)
IntToStr(n) ==
    IF n < 10 THEN <<ToString(n)>> ELSE IntToStr(n \div 10) \o <<ToString(n % 10)>>

DigitVal(c) == CHOOSE d \in 0..9 : ToString(d) = c

\* Python int(s) of a string of decimal digits
RECURSIVE DigitsToInt(_)
DigitsToInt(s) ==
    IF s = <<>> THEN 0
    ELSE 10 * DigitsToInt(Take(s, Len(s) - 1)) + DigitVal(s[Len(s)])

(***************************************************************************)
(* Schema documents (the parsed parserconfig.json)                         *)
(***************************************************************************)
PM_Cash  == [name |-> "cash", display_name |-> "Cash",
             prefix_symbol |-> <<"-">>, postfix_symbols |-> <<>>]
PM_Card  == [name |-> "card", display_name |-> "Card",
             prefix_symbol |-> <<"-">>, postfix_symbols |-> << <<"c">> >>]
PM_Debit == [name |-> "debit", display_name |-> "Debit",
             prefix_symbol |-> <<"-">>, postfix_symbols |-> << <<"c", "!">> >>]

PM_Plus  == [name |-> "plus", display_name |-> "Plus",
             prefix_symbol |-> <<"+">>, postfix_symbols |-> << <<"c">> >>]
PM_Bang  == [name |-> "bang", display_name |-> "Bang",
             prefix_symbol |-> <<"-">>, postfix_symbols |-> << <<"!">> >>]
PM_Twice == [name |-> "twice", display_name |-> "Twice",
             prefix_symbol |-> <<"-">>,
             postfix_symbols |-> << <<"c">>, <<"c", "!">> >>]

\* payment_methods of the schema, in document order
PaymentMethodSets == { <<PM_Cash, PM_Card>>, <<PM_Card, PM_Debit>> }

\* payment_methods of the schema documents given to the reader
ReaderPaymentMethodSets ==
    PaymentMethodSets
    \cup { <<PM_Card, PM_Plus>>, <<PM_Cash, PM_Plus, PM_Debit, PM_Card>>,
           <<PM_Bang, PM_Card, PM_Debit>>, <<PM_Card, PM_Bang>>,
           <<PM_Twice, PM_Card>>, <<PM_Cash, PM_Twice>> }

\* dateFormats of the schema as tokens: "%m.%d"
DateFormats == << <<"%m", ".", "%d">> >>

\* MandatoryExpenseField: the names, each one symbol of a string
MandatoryExpenseField ==
    { "PAYMENT_METHOD_MARKER", "AMOUNT", "AMOUNT_TITLE_SEP", "TITLE",
      "DETAILS", "MORE_DETAILS", "PAYMENT_METHOD_POSTFIX" }

\* ExpenseField
Field(type, value, optional, extract_inner_group) ==
    [type |-> type, value |-> value, optional |-> optional,
     extract_inner_group |-> extract_inner_group]

\* One item of the fields dictionary; the dictionary is the sequence of its
\* items in document order.
Item(name, field) == [name |-> name, field |-> field]

\* "<name>" in a format string
Placeholder(name) == <<"<">> \o name \o <<">">>

\* Field definitions of the sample schema
F_Marker  == Item(<<"PAYMENT_METHOD_MARKER">>, Field("regex", <<"[-+*?]">>, FALSE, FALSE))
F_Postfix == Item(<<"PAYMENT_METHOD_POSTFIX">>, Field("regex", <<"[a-z]*">>, FALSE, FALSE))
F_Amount  == Item(<<"AMOUNT">>,
                  Field("regex", <<" ", "(", "[0-9.]+", ")", " ">>, FALSE, TRUE))
F_Sep     == Item(<<"AMOUNT_TITLE_SEP">>,
                  Field("regex", <<"(", "\\|", ")", " ">>, FALSE, TRUE))
F_Title   == Item(<<"TITLE">>, Field("regex", <<"[a-z]+">>, FALSE, FALSE))
F_Details == Item(<<"DETAILS">>, Field("regex", <<>>, FALSE, FALSE))
F_More    == Item(<<"MORE_DETAILS">>, Field("regex", <<"[\\s\\S]*">>, FALSE, FALSE))

SampleFields == <<F_Marker, F_Postfix, F_Amount, F_Sep, F_Title, F_Details, F_More>>

\* formatString of the sample schema
SampleFormatString ==
    Placeholder(<<"PAYMENT_METHOD_MARKER">>) \o Placeholder(<<"PAYMENT_METHOD_POSTFIX">>)
    \o <<" ">> \o Placeholder(<<"AMOUNT">>) \o <<" ">>
    \o Placeholder(<<"AMOUNT_TITLE_SEP">>) \o <<" ">> \o Placeholder(<<"TITLE">>)
    \o Placeholder(<<"DETAILS">>) \o Placeholder(<<"MORE_DETAILS">>)

\* variables of the schema: a dictionary from variable name to regex fragment
NoVariables == <<>>
NumVariables == [n \in { <<"num">> } |-> <<"[0-9]">>]
\* a is defined by a reference to b
NestedVariables ==
    [n \in { <<"a">>, <<"b">> } |->
        IF n = <<"a">> THEN <<"VAR", "(", "b", ")">> ELSE <<"[0-9]">>]

Schemas ==
    [ income_symbol : { <<"+">>, <<"-">> },
      special_item_prefixes : { {}, { <<"-">> } },
      fail_on_unrecognized_payments : BOOLEAN,
      thousands_separator_chars : { << <<".">> >> },
      expense_more_details_separator_strings : { << <<"(">> >> },
      expense_more_details_close_strings : { << <<")">> >> },
      mandatory_postfix_for_payment_methods : { {"card"} },
      date_formats : { DateFormats },
      payment_methods : PaymentMethodSets,
      format_string : { SampleFormatString },
      fields : { SampleFields },
      variables : { NoVariables } ]

\* Other definitions of the AMOUNT field
AmountFieldVariants ==
    { F_Amount.field,
      \* " ([0-9.])+ ": a quantifier follows the group
      Field("regex", <<" ", "(", "[0-9.]", ")", "+", " ">>, FALSE, TRUE),
      \* "([0-9.]+)": the closing parenthesis is the last character
      Field("regex", <<"(", "[0-9.]+", ")">>, FALSE, TRUE),
      \* "([0-9.])?": a quantifier is the last character
      Field("regex", <<"(", "[0-9.]", ")", "?">>, FALSE, TRUE),
      \* extractInnerGroup on a literal
      Field("literal", <<"(", "1", ")", " ">>, FALSE, TRUE),
      \* extractInnerGroup with two groups
      Field("regex", <<"(", "[0-9]", ")", "(", "[.]", ")", " ">>, FALSE, TRUE),
      \* " (VAR(num)+) "
      Field("regex", <<" ", "(", "VAR", "(", "num", ")", "+", ")", " ">>, FALSE, TRUE),
      \* "[0-9.]+", optional
      Field("regex", <<"[0-9.]+">>, TRUE, FALSE),
      \* " (VAR(a)VAR(b)+) "
      Field("regex", <<" ", "(", "VAR", "(", "a", ")", "VAR", "(", "b", ")", "+", ")", " ">>,
            FALSE, TRUE) }

\* Fields outside the mandatory vocabulary
F_X  == Item(<<"X">>, Field("regex", <<"x">>, FALSE, FALSE))
F_X2 == Item(<<"X", "_", "2">>, Field("literal", <<"y">>, TRUE, FALSE))

FieldsWithAmount(amount) ==
    <<F_Marker, F_Postfix, Item(<<"AMOUNT">>, amount), F_Sep, F_Title, F_Details, F_More>>

\* The fields dictionaries of the schema documents given to the reader
FieldSets ==
    LET base == { FieldsWithAmount(a) : a \in AmountFieldVariants }
                \cup { <<F_Marker, F_Postfix, F_Sep, F_Title, F_Details, F_More>> }
    IN base \cup { f \o <<F_X>> : f \in base } \cup { f \o <<F_X, F_X2>> : f \in base }

\* The format strings of the schema documents given to the reader
FormatStrings ==
    { SampleFormatString,
      SampleFormatString \o Placeholder(<<"X">>),
      SampleFormatString \o Placeholder(<<"X">>) \o <<" ">> \o Placeholder(<<"X">>),
      SampleFormatString \o Placeholder(<<"X">>) \o Placeholder(<<"X">>)
          \o Placeholder(<<"X", "_", "2">>),
      SampleFormatString \o Placeholder(<<"AMOUNT">>),
      SampleFormatString \o Placeholder(<<"Y">>),
      <<"a", "<", ">", "b">> }

\* The schema documents given to the reader
ReaderSchemas ==
    [ income_symbol : { <<"+">> },
      special_item_prefixes : { {} },
      fail_on_unrecognized_payments : { FALSE },
      thousands_separator_chars : { << <<".">> >> },
      expense_more_details_separator_strings : { << <<"(">> >> },
      expense_more_details_close_strings : { << <<")">> >> },
      mandatory_postfix_for_payment_methods : { {"card"} },
      date_formats : { DateFormats },
      payment_methods : ReaderPaymentMethodSets,
      format_string : FormatStrings,
      fields : FieldSets,
      variables : { NoVariables, NumVariables, NestedVariables } ]

(***************************************************************************)
(* config.py: ParserConfig.__post_init__                                   *)
(***************************************************************************)
SanitizeChars == Alnum \cup {" "}

\* re.findall("[a-zA-Z0-9 ]+", postfix): the maximal runs, left to right
RECURSIVE FindAllAlnumRuns(_)
FindAllAlnumRuns(postfix) ==
    IF postfix = <<>> THEN <<>>
    ELSE LET n == SpanLen(postfix, SanitizeChars) IN
         IF n = 0 THEN FindAllAlnumRuns(Tail(postfix))
         ELSE <<Take(postfix, n)>> \o FindAllAlnumRuns(Drop(postfix, n))

\* The (payment method, postfix) pairs in the order the two loops visit them
RECURSIVE PostfixPairs(_)
PostfixPairs(pms) ==
    IF pms = <<>> THEN <<>>
    ELSE [i \in 1..Len(pms[1].postfix_symbols) |->
             [pm |-> pms[1], postfix |-> pms[1].postfix_symbols[i]]]
         \o PostfixPairs(Tail(pms))

\* One pass of the inner loop body over the remaining pairs; reg is the
\* dictionary built so far.
RECURSIVE RegisterPairs(_, _)
RegisterPairs(pairs, reg) ==
    IF pairs = <<>> THEN [raised |-> None, registry |-> reg]
    ELSE LET pm == pairs[1].pm
             found_values == FindAllAlnumRuns(pairs[1].postfix)
         IN IF found_values = <<>>
            THEN [raised |-> "ValueError: Postfix is invalid", registry |-> reg]
            ELSE LET key == <<pm.prefix_symbol, found_values[1]>> IN
                 IF key \in DOMAIN reg
                 THEN [raised |-> "ValueError: Duplicate prefix+postfix key",
                       registry |-> reg, key |-> key,
                       payment_methods_with_dupe_key |-> <<reg[key], pm>>]
                 ELSE RegisterPairs(Tail(pairs), (key :> pm) @@ reg)

\* The duplicate check left out: a later payment method replaces an earlier one
RECURSIVE Mut_RegisterPairs_LastWins(_, _)
Mut_RegisterPairs_LastWins(pairs, reg) ==
    IF pairs = <<>> THEN [raised |-> None, registry |-> reg]
    ELSE LET found_values == FindAllAlnumRuns(pairs[1].postfix) IN
         IF found_values = <<>>
         THEN [raised |-> "ValueError: Postfix is invalid", registry |-> reg]
         ELSE Mut_RegisterPairs_LastWins(Tail(pairs),
                  (<<pairs[1].pm.prefix_symbol, found_values[1]>> :> pairs[1].pm) @@ reg)

Mut_ParserConfigPostInit_NoDuplicateCheck(payment_methods) ==
    Mut_RegisterPairs_LastWins(PostfixPairs(payment_methods), <<>>)

ParserConfigPostInit(payment_methods) ==
    RegisterPairs(PostfixPairs(payment_methods), <<>>)

(***************************************************************************)
(* config.py: ParserConfigReader._validate and what it calls               *)
(***************************************************************************)
\* The characters of [a-zA-Z0-9_ ] (ExpenseFormat.FIELD_FORMAT): the names of
\* the vocabulary are single symbols, so they belong to the class.
FieldNameChars == Alnum \cup {"_", " ", "X", "Y"} \cup MandatoryExpenseField

\* re.findall(ExpenseFormat.FIELD_FORMAT, format_string)
RECURSIVE FindAllFieldFormat(_)
FindAllFieldFormat(s) ==
    IF s = <<>> THEN <<>>
    ELSE IF Head(s) = "<"
         THEN LET n == SpanLen(Tail(s), FieldNameChars) IN
              IF n > 0 /\ Len(s) >= n + 2 /\ s[n + 2] = ">"
              THEN <<SubSeq(s, 2, n + 1)>> \o FindAllFieldFormat(Drop(s, n + 2))
              ELSE FindAllFieldFormat(Tail(s))
         ELSE FindAllFieldFormat(Tail(s))

\* The characters of [a-zA-Z_] (ExpenseFormat.VAR_PATTERN)
VarNameChars == LowerLetters \cup {"_", "num"}

\* re.findall(ExpenseFormat.VAR_PATTERN, value): "VAR" is one symbol
RECURSIVE FindAllVarPattern(_)
FindAllVarPattern(s) ==
    IF s = <<>> THEN <<>>
    ELSE IF Head(s) = "VAR" /\ Len(s) >= 2 /\ s[2] = "("
         THEN LET n == SpanLen(Drop(s, 2), VarNameChars) IN
              IF n > 0 /\ Len(s) >= n + 3 /\ s[n + 3] = ")"
              THEN <<SubSeq(s, 3, n + 2)>> \o FindAllVarPattern(Drop(s, n + 3))
              ELSE FindAllVarPattern(Tail(s))
         ELSE FindAllVarPattern(Tail(s))

SeqToSet(q) == { q[i] : i \in 1..Len(q) }

\* fields.keys()
FieldKeys(fields) == { fields[i].name : i \in 1..Len(fields) }

\* fields[field_name]
FieldObject(fields, field_name) ==
    fields[CHOOSE i \in 1..Len(fields) : fields[i].name = field_name].field

\* _resolve_variables: the values the field may get. `for var in vars_set`
\* visits a set of strings, in an order that differs between runs; the
\* result is the set over every order.
RECURSIVE ResolveVariables(_, _, _)
ResolveVariables(available_vars, value, vars_set) ==
    IF vars_set = {} THEN {value}
    ELSE UNION { ResolveVariables(available_vars,
                                  ReplaceSub(value, <<"VAR", "(">> \o var \o <<")">>,
                                             available_vars[var]),
                                  vars_set \ {var}) : var \in vars_set }

\* _check_variables over the items from position i on; fields is the
\* dictionary with the values resolved so far. The result is the set of the
\* possible outcomes (see ResolveVariables).
RECURSIVE CheckVariables(_, _, _)
CheckVariables(fields, available_vars, i) ==
    IF i > Len(fields) THEN { [raised |-> None, args |-> {}, fields |-> fields] }
    ELSE LET vars_set == SeqToSet(FindAllVarPattern(fields[i].field.value))
             diff == vars_set \ DOMAIN available_vars
         IN IF vars_set = {} THEN CheckVariables(fields, available_vars, i + 1)
            ELSE IF diff # {}
            THEN { [raised |-> "ValueError: Unkown variables", args |-> diff,
                    fields |-> fields] }
            ELSE UNION { CheckVariables([fields EXCEPT ![i].field.value = new_value],
                                        available_vars, i + 1) :
                         new_value \in ResolveVariables(available_vars,
                                                        fields[i].field.value, vars_set) }

\* _ensure_there_is_only_one_regex_group
EnsureThereIsOnlyOneRegexGroup(regex) ==
    LET count_open == CountChar(regex, "(")
        count_close == CountChar(regex, ")")
    IN IF count_open # count_close THEN FALSE
       ELSE IF count_open > 1 \/ count_open = 0 THEN FALSE
       ELSE TRUE

\* _validate_regexes over the items from position i on
RECURSIVE ValidateRegexes(_, _)
ValidateRegexes(fields, i) ==
    IF i > Len(fields) THEN None
    ELSE LET field == fields[i].field IN
         IF field.extract_inner_group /\ field.type # "regex"
         THEN "ValueError: Invalid config. If 'extractInnerGroup' is enabled, field type should be regex"
         ELSE IF field.extract_inner_group
                 /\ ~EnsureThereIsOnlyOneRegexGroup(field.value)
         THEN "ValueError: Invalid config. If 'extractInnerGroup' is enabled, the regex should only have at most one group"
         ELSE ValidateRegexes(fields, i + 1)

\* The check of the mandatory names skipped
Mut_Validate_MandatoryNotChecked(fields, format_string, variables, mandatory_field_names) ==
    LET field_positions == FindAllFieldFormat(format_string)
        expected_field_names == SeqToSet(field_positions)
        diff == expected_field_names \ FieldKeys(fields)
    IN IF expected_field_names = {}
       THEN { [raised |-> "ValueError: Expected field names is empty",
               args |-> expected_field_names,
               field_positions |-> field_positions, fields |-> fields] }
       ELSE IF diff # {}
       THEN { [raised |-> "ValueError: The following fields are not having the field config object",
               args |-> diff, field_positions |-> field_positions, fields |-> fields] }
       ELSE { [raised |-> None, args |-> {},
               field_positions |-> field_positions, fields |-> fields] }

\* _validate: the set of its possible outcomes (see ResolveVariables), each
\* one the exception raised or None, the names the exception shows,
\* self.field_positions and the fields dictionary as the call leaves them
Validate(fields, format_string, variables, mandatory_field_names) ==
    LET actual_field_names == FieldKeys(fields)
        field_positions == FindAllFieldFormat(format_string)
        expected_field_names == SeqToSet(field_positions)
        out(raised, args, f) ==
            [raised |-> raised, args |-> args,
             field_positions |-> field_positions, fields |-> f]
    IN IF expected_field_names = {} \/ \E fn \in expected_field_names : fn = <<>>
       THEN { out("ValueError: Expected field names is empty",
                  expected_field_names, fields) }
       ELSE IF mandatory_field_names \ actual_field_names # {}
       THEN { out("ValueError: Found unknown field names",
                  mandatory_field_names \ actual_field_names, fields) }
       ELSE IF expected_field_names \ actual_field_names # {}
       THEN { out("ValueError: The following fields are not having the field config object",
                  expected_field_names \ actual_field_names, fields) }
       ELSE { IF checked.raised # None
              THEN out(checked.raised, checked.args, checked.fields)
              ELSE out(ValidateRegexes(checked.fields, 1), {}, checked.fields) :
              checked \in CheckVariables(fields, variables, 1) }

(***************************************************************************)
(* config.py: ParserConfigReader._create_regex, _create_final_regex        *)
(***************************************************************************)
\* regex_value[close_idx+1] past the end of the string
StringIndexError == "IndexError: string index out of range"

\* f"(?P<{group_name}>{group})"
NamedGroup(group_name, group) ==
    <<"(", "?", "P", "<">> \o group_name \o <<">">> \o group \o <<")">>

\* _create_regex: the exception raised or None, and the value returned
CreateRegex(group_name, field_object) ==
    LET regex_value == field_object.value IN
    IF field_object.extract_inner_group
    THEN LET open_idx == FindChar(regex_value, "(")
             close_idx == RFindChar(regex_value, ")")
         IN IF close_idx + 1 >= Len(regex_value)
            THEN [raised |-> StringIndexError, value |-> <<>>]
            ELSE LET at == regex_value[close_idx + 2]
                     quantifier == IF at \in {"*", "?", "+"} THEN <<at>> ELSE <<>>
                     start == Slice(regex_value, 0, open_idx)
                     end == Slice(regex_value, close_idx + 1, Len(regex_value))
                     group == Slice(regex_value, open_idx + 1, close_idx) \o quantifier
                 IN [raised |-> None,
                     value |-> start \o NamedGroup(group_name, group) \o end]
    ELSE LET grouped_regex == NamedGroup(group_name, regex_value) IN
         [raised |-> None,
          value |-> IF field_object.optional THEN grouped_regex \o <<"*">>
                    ELSE grouped_regex]

\* _create_final_regex from position i of field_positions on; final_regex and
\* used_group_names are the locals of the loop
RECURSIVE CreateFinalRegexLoop(_, _, _, _, _, _)
CreateFinalRegexLoop(field_positions, field_objects, mandatory_field_names, i, final_regex, used_group_names) ==
    IF i > Len(field_positions)
    THEN [raised |-> None, args |-> {}, expense_regex |-> final_regex]
    ELSE LET field_name == field_positions[i]
             field_object == FieldObject(field_objects, field_name)
         IN IF field_name \notin DOMAIN used_group_names
            THEN LET made == CreateRegex(field_name, field_object) IN
                 IF made.raised # None
                 THEN [raised |-> made.raised, args |-> {}, expense_regex |-> None]
                 ELSE CreateFinalRegexLoop(field_positions, field_objects,
                          mandatory_field_names, i + 1, final_regex \o made.value,
                          (field_name :> 1) @@ used_group_names)
            ELSE IF field_name \notin mandatory_field_names
            THEN LET count == used_group_names[field_name] + 1
                     group_name == field_name \o <<"_">> \o IntToStr(count)
                     made == CreateRegex(group_name, field_object)
                 IN IF made.raised # None
                    THEN [raised |-> made.raised, args |-> {}, expense_regex |-> None]
                    ELSE CreateFinalRegexLoop(field_positions, field_objects,
                             mandatory_field_names, i + 1, final_regex \o made.value,
                             [used_group_names EXCEPT ![field_name] = count])
            ELSE [raised |-> "ValueError: Group name is already used in regex",
                  args |-> {field_name}, expense_regex |-> None]

CreateFinalRegex(field_positions, field_objects, mandatory_field_names) ==
    CreateFinalRegexLoop(field_positions, field_objects, mandatory_field_names,
                         1, <<>>, <<>>)

(***************************************************************************)
(* config.py: ParserConfigReader._convert_date_formats_to_patterns         *)
(***************************************************************************)
\* mappings, applied to one token of the format; "\\d" is the atom \d and
\* "\\." the atom \. of the resulting pattern
DateTokenPattern(tok) ==
    CASE tok = "%m" -> <<"\\d", "\\d">>
      [] tok = "%d" -> <<"\\d", "\\d">>
      [] tok = "%Y" -> <<"\\d", "\\d", "\\d", "\\d">>
      [] tok = "."  -> <<"\\.">>
      [] OTHER      -> <<tok>>

RECURSIVE ConvertDateFormat(_)
ConvertDateFormat(fmt) ==
    IF fmt = <<>> THEN <<"$">>
    ELSE DateTokenPattern(Head(fmt)) \o ConvertDateFormat(Tail(fmt))

ConvertDateFormatsToPatterns(formats) ==
    [i \in 1..Len(formats) |-> ConvertDateFormat(formats[i])]

AtomMatches(atom, ch) ==
    CASE atom = "\\d" -> ch \in Digits
      [] atom = "\\." -> ch = "."
      [] OTHER        -> ch = atom

\* date_regex.match(line) for a pattern of one-character atoms ending in $
DateRegexMatch(date_regex, line) ==
    /\ Len(line) = Len(date_regex) - 1
    /\ \A i \in 1..Len(line) : AtomMatches(date_regex[i], line[i])

(***************************************************************************)
(* Ledger files                                                            *)
(***************************************************************************)
LineAlphabet ==
    { <<"0", "8", ".", "0", "1">>,                       \* date line 08.01
      <<"0", "8", ".", "0", "2">>,                       \* date line 08.02
      <<"-", "c", " ", "1", ".", "2", " ", "|", " ", "a">>,  \* -c 1.2 | a
      <<"-", " ", "1", "0", " ", "|", " ", "a">>,        \* - 10 | a
      <<"+", " ", "5", " ", "|", " ", "s">>,             \* + 5 | s
      <<>>,                                              \* empty line
      <<" ">>,                                           \* whitespace line
      <<"-", "c", " ", "7", " ", "|", " ", "a", " ", "(">>,  \* -c 7 | a (
      <<"b", ")">>,                                      \* b)
      <<"-", "c", " ", "7", " ", "|", " ", "a", " ", "(", "b", ")">> }  \* -c 7 | a (b)

\* The contents of the files the parser may be given
Files ==
    { JoinLines(ls) : ls \in UNION { [1..n -> LineAlphabet] : n \in 1..MaxLines } }

\* Python `file_contents.split("\n")`
RECURSIVE SplitLines(_)
SplitLines(contents) ==
    LET n == SpanLen(contents, LineChars) IN
    IF n = Len(contents) THEN <<contents>>
    ELSE <<Take(contents, n)>> \o SplitLines(Drop(contents, n + 1))

(***************************************************************************)
(* parser.py: the composite pattern applied by re.match                    *)
(***************************************************************************)
MarkerChars == {"-", "+", "*", "?"}
AmountChars == Digits \cup {"."}

\* re.match(expense_regex, lines, re.MULTILINE) for the composite pattern
\*   (?P<PAYMENT_METHOD_MARKER>[-+*?])(?P<PAYMENT_METHOD_POSTFIX>[a-z]*)
\*   " "(?P<AMOUNT>[0-9.]+)" "(?P<AMOUNT_TITLE_SEP>\|)" "(?P<TITLE>[a-z]+)
\*   (?P<DETAILS>)(?P<MORE_DETAILS>[\s\S]*)
\* The result is None for no match, else the named groups.
NoMatch == [matched |-> FALSE]

ExpenseRegexMatch(text) ==
    IF text = <<>> \/ text[1] \notin MarkerChars THEN NoMatch
    ELSE
    LET r1 == Drop(text, 1)
        p  == SpanLen(r1, LowerLetters)
        r2 == Drop(r1, p)
    IN IF r2 = <<>> \/ r2[1] # " " THEN NoMatch
       ELSE
       LET r3 == Drop(r2, 1)
           a  == SpanLen(r3, AmountChars)
           r4 == Drop(r3, a)
       IN IF a = 0 \/ Len(r4) < 3 \/ Take(r4, 3) # <<" ", "|", " ">> THEN NoMatch
          ELSE
          LET r5 == Drop(r4, 3)
              t  == SpanLen(r5, LowerLetters)
          IN IF t = 0 THEN NoMatch
             ELSE [matched |-> TRUE,
                   PAYMENT_METHOD_MARKER |-> Take(text, 1),
                   PAYMENT_METHOD_POSTFIX |-> Take(r1, p),
                   AMOUNT |-> Take(r3, a),
                   AMOUNT_TITLE_SEP |-> <<"|">>,
                   TITLE |-> Take(r5, t),
                   DETAILS |-> <<>>,
                   MORE_DETAILS |-> Drop(r5, t)]

(***************************************************************************)
(* parser.py: ParsedExpense                                                *)
(***************************************************************************)
\* Python values of the amount attribute, with their type
PyStr(s) == [py_type |-> "str", value |-> s]
PyInt(n) == [py_type |-> "int", value |-> n]

\* payment_method = None
NonePaymentMethod == [name |-> None]

INCOME == "INCOME"
SPECIAL == "SPECIAL"
EXPENSE == "EXPENSE"

\* Mutant of PostInit: the special-item prefixes are tested before the
\* income symbol.
Mut_PostInit_SpecialBeforeIncome(self, schema, registry) ==
    LET payment_method_key ==
            <<self.payment_method_marker, self.payment_method_postfix>>
        classified ==
            IF self.payment_method_marker \in schema.special_item_prefixes
            THEN [found_unrecognized |-> FALSE,
                  obj |-> [self EXCEPT !.item_type = SPECIAL]]
            ELSE IF self.payment_method_marker = schema.income_symbol
            THEN [found_unrecognized |-> FALSE,
                  obj |-> [self EXCEPT !.item_type = INCOME]]
            ELSE IF payment_method_key \notin DOMAIN registry
            THEN [found_unrecognized |-> TRUE,
                  obj |-> [self EXCEPT !.payment_method = NonePaymentMethod,
                                       !.item_type = EXPENSE]]
            ELSE [found_unrecognized |-> FALSE,
                  obj |-> [self EXCEPT !.payment_method = registry[payment_method_key],
                                       !.item_type = EXPENSE]]
    IN IF schema.fail_on_unrecognized_payments /\ classified.found_unrecognized
       THEN [raised |-> "ValueError: Found unrecognized payment methods",
             obj |-> classified.obj]
       ELSE [raised |-> None, obj |-> classified.obj]

\* Mutant of PostInit: the error is raised whenever the flag is set.
Mut_PostInit_RaisesWheneverFlagSet(self, schema, registry) ==
    LET payment_method_key ==
            <<self.payment_method_marker, self.payment_method_postfix>>
        classified ==
            IF self.payment_method_marker = schema.income_symbol
            THEN [found_unrecognized |-> FALSE,
                  obj |-> [self EXCEPT !.item_type = INCOME]]
            ELSE IF self.payment_method_marker \in schema.special_item_prefixes
            THEN [found_unrecognized |-> FALSE,
                  obj |-> [self EXCEPT !.item_type = SPECIAL]]
            ELSE IF payment_method_key \notin DOMAIN registry
            THEN [found_unrecognized |-> TRUE,
                  obj |-> [self EXCEPT !.payment_method = NonePaymentMethod,
                                       !.item_type = EXPENSE]]
            ELSE [found_unrecognized |-> FALSE,
                  obj |-> [self EXCEPT !.payment_method = registry[payment_method_key],
                                       !.item_type = EXPENSE]]
    IN IF schema.fail_on_unrecognized_payments
       THEN [raised |-> "ValueError: Found unrecognized payment methods",
             obj |-> classified.obj]
       ELSE [raised |-> None, obj |-> classified.obj]

\* ParsedExpense.post_init: the classified entry, or the exception raised
PostInit(self, schema, registry) ==
    LET payment_method_key ==
            <<self.payment_method_marker, self.payment_method_postfix>>
        classified ==
            IF self.payment_method_marker = schema.income_symbol
            THEN [found_unrecognized |-> FALSE,
                  obj |-> [self EXCEPT !.item_type = INCOME]]
            ELSE IF self.payment_method_marker \in schema.special_item_prefixes
            THEN [found_unrecognized |-> FALSE,
                  obj |-> [self EXCEPT !.item_type = SPECIAL]]
            ELSE IF payment_method_key \notin DOMAIN registry
            THEN [found_unrecognized |-> TRUE,
                  obj |-> [self EXCEPT !.payment_method = NonePaymentMethod,
                                       !.item_type = EXPENSE]]
            ELSE [found_unrecognized |-> FALSE,
                  obj |-> [self EXCEPT !.payment_method = registry[payment_method_key],
                                       !.item_type = EXPENSE]]
    IN IF schema.fail_on_unrecognized_payments /\ classified.found_unrecognized
       THEN [raised |-> "ValueError: Found unrecognized payment methods",
             obj |-> classified.obj]
       ELSE [raised |-> None, obj |-> classified.obj]

(***************************************************************************)
(* parser.py: ExpenseInputFileParser                                       *)
(***************************************************************************)
MULTI_LINE_EXPENSE_CONTINUED == <<-1, -1>>
MULTI_LINE_EXPENSE_HEADER == <<-2, -2>>
\* Python None where a line range is expected
NoneRange == <<>>

\* _determine_if_line_excluded
DetermineIfLineExcluded(line, regexes) ==
    \E i \in 1..Len(regexes) : DateRegexMatch(regexes[i], line)

\* _get_multiline_expense_open_chars / _get_multiline_expense_close_chars
GetMultilineExpenseOpenChars(schema) ==
    { schema.expense_more_details_separator_strings[i] :
        i \in 1..Len(schema.expense_more_details_separator_strings) }
GetMultilineExpenseCloseChars(schema) ==
    { schema.expense_more_details_close_strings[i] :
        i \in 1..Len(schema.expense_more_details_close_strings) }

SeqContains(list, x) == \E i \in 1..Len(list) : list[i] = x

\* Mutant of GetLineRangesOfBlocks: the opening line's index is not remembered.
Mut_GetLineRangesOfBlocks_StartNotRecorded(line, i, st, excluded, open_chars, close_chars) ==
    LET multi_line_opened == \E ch \in open_chars : StrContains(ch, line)
        multi_line_closed == \E ch \in close_chars : StrContains(ch, line)
    IN IF multi_line_opened /\ ~st.inside_multiline
       THEN [ret |-> MULTI_LINE_EXPENSE_HEADER,
             st |-> [st EXCEPT !.inside_multiline = TRUE]]
       ELSE IF multi_line_closed /\ st.inside_multiline
       THEN [ret |-> <<st.multiline_start_idx, i>>,
             st |-> [st EXCEPT !.inside_multiline = FALSE,
                               !.multiline_end_idx = i]]
       ELSE IF ~multi_line_closed /\ st.inside_multiline
       THEN [ret |-> MULTI_LINE_EXPENSE_CONTINUED, st |-> st]
       ELSE IF ~SeqContains(excluded, i) /\ (line # <<>> /\ ~IsSpace(line))
       THEN [ret |-> <<i, i>>, st |-> st]
       ELSE [ret |-> NoneRange, st |-> st]

\* _get_line_ranges_of_blocks: the returned range and the fields it leaves.
\* st holds inside_multiline, multiline_start_idx, multiline_end_idx.
GetLineRangesOfBlocks(line, i, st, excluded, open_chars, close_chars) ==
    LET multi_line_opened == \E ch \in open_chars : StrContains(ch, line)
        multi_line_closed == \E ch \in close_chars : StrContains(ch, line)
    IN IF multi_line_opened /\ ~st.inside_multiline
       THEN [ret |-> MULTI_LINE_EXPENSE_HEADER,
             st |-> [st EXCEPT !.inside_multiline = TRUE,
                               !.multiline_start_idx = i]]
       ELSE IF multi_line_closed /\ st.inside_multiline
       THEN [ret |-> <<st.multiline_start_idx, i>>,
             st |-> [st EXCEPT !.inside_multiline = FALSE,
                               !.multiline_end_idx = i]]
       ELSE IF ~multi_line_closed /\ st.inside_multiline
       THEN [ret |-> MULTI_LINE_EXPENSE_CONTINUED, st |-> st]
       ELSE IF ~SeqContains(excluded, i) /\ (line # <<>> /\ ~IsSpace(line))
       THEN [ret |-> <<i, i>>, st |-> st]
       ELSE [ret |-> NoneRange, st |-> st]

\* _get_lines_by_ranges: the loop over the remaining ranges
RECURSIVE LinesByRangesLoop(_, _, _, _, _)
LinesByRangesLoop(ranges, lines, excluded, curr_date_idx, result) ==
    IF ranges = <<>> THEN [raised |-> None, result |-> result]
    ELSE
    LET range == Head(ranges) IN
    IF range = NoneRange
    THEN [raised |-> "TypeError: 'NoneType' object is not subscriptable",
          result |-> result]
    ELSE
    LET list_of_lines == SubSeq(lines, range[1] + 1, range[2] + 1) IN
    IF Len(excluded) - 1 # curr_date_idx /\ curr_date_idx + 2 > Len(excluded)
    THEN [raised |-> "IndexError: list index out of range", result |-> result]
    ELSE
    LET next_idx == IF Len(excluded) - 1 # curr_date_idx
                       /\ range[2] > excluded[curr_date_idx + 2]
                    THEN curr_date_idx + 1 ELSE curr_date_idx
    IN IF next_idx + 1 > Len(excluded)
       THEN [raised |-> "IndexError: list index out of range", result |-> result]
       ELSE LET date_idx == excluded[next_idx + 1]
                date == lines[date_idx + 1]
            IN LinesByRangesLoop(Tail(ranges), lines, excluded, next_idx,
                   Append(result, [list_of_lines |-> list_of_lines, date |-> date]))

GetLinesByRanges(lines, ranges, excluded) ==
    LinesByRangesLoop(ranges, lines, excluded, 0, <<>>)

\* _convert_amount_str (never called: parser.py line 204 is a TODO).  The
\* loop: `sep in amount` tests the text given, replace works on new_amount.
RECURSIVE StripSeparators(_, _, _)
StripSeparators(amount, new_amount, sep_chars) ==
    IF sep_chars = <<>> THEN new_amount
    ELSE StripSeparators(
             amount,
             IF StrContains(Head(sep_chars), amount)
             THEN RemoveSub(new_amount, Head(sep_chars)) ELSE new_amount,
             Tail(sep_chars))

\* Python `s.strip()` on the whitespace of the alphabet
IntWhitespace == {" ", NL, "\t"}
RECURSIVE StripWhitespace(_)
StripWhitespace(s) ==
    IF s = <<>> THEN s
    ELSE IF Head(s) \in IntWhitespace THEN StripWhitespace(Tail(s))
    ELSE IF s[Len(s)] \in IntWhitespace THEN StripWhitespace(Take(s, Len(s) - 1))
    ELSE s

\* The digits part of an int literal: decimal digits, single underscores
\* allowed between digits
IsIntDigits(d) ==
    /\ d # <<>>
    /\ \A i \in 1..Len(d) : d[i] \in Digits \cup {"_"}
    /\ d[1] \in Digits /\ d[Len(d)] \in Digits
    /\ \A i \in 1..(Len(d) - 1) : ~(d[i] = "_" /\ d[i + 1] = "_")

\* Python int(s) of a str: surrounding whitespace and one sign are accepted
PyIntOfStr(s) ==
    LET t == StripWhitespace(s)
        signed == t # <<>> /\ Head(t) \in {"+", "-"}
        d == IF signed THEN Tail(t) ELSE t
    IN IF IsIntDigits(d)
       THEN LET n == DigitsToInt(RemoveSub(d, <<"_">>)) IN
            PyInt(IF signed /\ Head(t) = "-" THEN 0 - n ELSE n)
       ELSE [py_type |-> "ValueError", value |-> s]

ConvertAmountStr(amount, sep_chars) ==
    PyIntOfStr(StripSeparators(amount, amount, sep_chars))

\* _parse_expense_obj_from_match_groups
ParseExpenseObjFromMatchGroups(match, date, schema, registry) ==
    LET parsed_expense ==
            [date |-> date,
             payment_method_marker |-> match.PAYMENT_METHOD_MARKER,
             payment_method_postfix |-> match.PAYMENT_METHOD_POSTFIX,
             amount |-> PyStr(match.AMOUNT),
             title |-> match.TITLE,
             details |-> match.DETAILS,
             more_details |-> match.MORE_DETAILS,
             amount_title_sep |-> match.AMOUNT_TITLE_SEP,
             payment_method |-> NonePaymentMethod,
             item_type |-> None]
    IN PostInit(parsed_expense, schema, registry)

\* Mutant of ProcessLoop: the loop ends at the first block that does not match.
RECURSIVE Mut_ProcessLoop_StopsAtNonMatch(_, _, _, _)
Mut_ProcessLoop_StopsAtNonMatch(pairs, schema, registry, parsed_expenses) ==
    IF pairs = <<>> THEN [raised |-> None, parsed_expenses |-> parsed_expenses]
    ELSE
    LET lines == JoinLines(Head(pairs).list_of_lines)
        match == ExpenseRegexMatch(lines)
    IN IF ~match.matched
       THEN [raised |-> None, parsed_expenses |-> parsed_expenses]
       ELSE LET built == ParseExpenseObjFromMatchGroups(
                             match, Head(pairs).date, schema, registry)
            IN IF built.raised # None
               THEN [raised |-> built.raised, parsed_expenses |-> parsed_expenses]
               ELSE Mut_ProcessLoop_StopsAtNonMatch(Tail(pairs), schema, registry,
                                Append(parsed_expenses, built.obj))

\* _process_line_ranges: the loop over the remaining (lines, date) pairs
RECURSIVE ProcessLoop(_, _, _, _)
ProcessLoop(pairs, schema, registry, parsed_expenses) ==
    IF pairs = <<>> THEN [raised |-> None, parsed_expenses |-> parsed_expenses]
    ELSE
    LET lines == JoinLines(Head(pairs).list_of_lines)
        match == ExpenseRegexMatch(lines)
    IN IF ~match.matched
       THEN ProcessLoop(Tail(pairs), schema, registry, parsed_expenses)
       ELSE LET built == ParseExpenseObjFromMatchGroups(
                             match, Head(pairs).date, schema, registry)
            IN IF built.raised # None
               THEN [raised |-> built.raised, parsed_expenses |-> parsed_expenses]
               ELSE ProcessLoop(Tail(pairs), schema, registry,
                                Append(parsed_expenses, built.obj))

ProcessLineRanges(lines_by, schema, registry) ==
    ProcessLoop(lines_by, schema, registry, <<>>)

(***************************************************************************)
(* State                                                                   *)
(***************************************************************************)
VARIABLES
    schema,                 \* the parsed schema document (config.py ParserConfig)
    payment_methods_by_prefix_and_postfix,      \* config.py line 95
    date_regexes,                               \* config.py line 93
    fields,                 \* expense_format.fields (config.py line 60)
    field_positions,                            \* config.py line 146
    expense_regex,                              \* config.py line 94
    raised_args,            \* what the message of the exception shows
    multi_line_expense_open_chars,              \* parser.py line 106
    multi_line_expense_close_chars,             \* parser.py line 107
    file,                   \* contents of the input file (parser.py line 116)
    lines_of_file,                              \* parser.py line 117
    idx,                    \* loop variable of the scan (parser.py line 118)
    excluded_lines,                             \* parser.py line 112
    line_ranges_of_blocks,                      \* parser.py line 111
    inside_multiline,                           \* parser.py line 113
    multiline_start_idx,                        \* parser.py line 109
    multiline_end_idx,                          \* parser.py line 110
    lines_by_ranges,                            \* parser.py line 173
    returned,               \* the values returned by the parse calls so far
    calls,                  \* number of parse calls started
    raised,                 \* the exception that ended the run, or None
    pc                      \* position in load / __init__ / parse

config_vars == <<schema, payment_methods_by_prefix_and_postfix, date_regexes,
                 fields, field_positions, expense_regex, raised_args>>
marker_vars == <<multi_line_expense_open_chars, multi_line_expense_close_chars>>
block_vars == <<inside_multiline, multiline_start_idx, multiline_end_idx>>
scan_vars == <<excluded_lines, line_ranges_of_blocks>>
vars == <<schema, payment_methods_by_prefix_and_postfix, date_regexes,
          fields, field_positions, expense_regex, raised_args,
          multi_line_expense_open_chars, multi_line_expense_close_chars,
          file, lines_of_file, idx, excluded_lines, line_ranges_of_blocks,
          inside_multiline, multiline_start_idx, multiline_end_idx,
          lines_by_ranges, returned, calls, raised, pc>>

\* The state before the schema document is loaded, for the documents of S
InitWith(S) ==
    /\ schema \in S
    /\ payment_methods_by_prefix_and_postfix = <<>>
    /\ date_regexes = <<>>
    /\ fields = <<>>
    /\ field_positions = <<>>
    /\ expense_regex = None
    /\ raised_args = {}
    /\ multi_line_expense_open_chars = {}
    /\ multi_line_expense_close_chars = {}
    /\ file = <<>>
    /\ lines_of_file = <<>>
    /\ idx = 0
    /\ excluded_lines = <<>>
    /\ line_ranges_of_blocks = <<>>
    /\ inside_multiline = FALSE
    /\ multiline_start_idx = -1
    /\ multiline_end_idx = -1
    /\ lines_by_ranges = <<>>
    /\ returned = <<>>
    /\ calls = 0
    /\ raised = None
    /\ pc = "load"

Init == InitWith(Schemas)

parser_vars == <<marker_vars, file, lines_of_file, idx, scan_vars, block_vars,
                 lines_by_ranges, returned, calls>>

\* ParserConfigReader._parse: ParserConfig.from_json, whose last step is
\* ParserConfig.__post_init__
LoadConfig ==
    /\ pc = "load"
    /\ LET built == ParserConfigPostInit(schema.payment_methods) IN
       /\ payment_methods_by_prefix_and_postfix' = built.registry
       /\ fields' = schema.fields
       /\ raised' = built.raised
       /\ IF built.raised = "ValueError: Duplicate prefix+postfix key"
          THEN raised_args' = [key |-> built.key,
                               payment_methods_with_dupe_key |->
                                   built.payment_methods_with_dupe_key]
          ELSE UNCHANGED raised_args
       /\ pc' = IF built.raised # None THEN "config_error" ELSE "parsed"
    /\ UNCHANGED <<schema, date_regexes, field_positions, expense_regex,
                   parser_vars>>

\* ParserConfigReader._validate
ValidateConfig ==
    /\ pc = "parsed"
    /\ \E done \in Validate(fields, schema.format_string, schema.variables,
                            { <<n>> : n \in MandatoryExpenseField }) :
       /\ field_positions' = done.field_positions
       /\ fields' = done.fields
       /\ raised' = done.raised
       /\ raised_args' = done.args
       /\ pc' = IF done.raised # None THEN "config_error" ELSE "validated"
    /\ UNCHANGED <<schema, payment_methods_by_prefix_and_postfix, date_regexes,
                   expense_regex, parser_vars>>

\* ParserConfigReader._post_init
ReaderPostInit ==
    /\ pc = "validated"
    /\ LET made == CreateFinalRegex(field_positions, fields,
                                    { <<n>> : n \in MandatoryExpenseField }) IN
       /\ raised' = made.raised
       /\ raised_args' = made.args
       /\ IF made.raised # None
          THEN /\ pc' = "config_error"
               /\ UNCHANGED <<expense_regex, date_regexes>>
          ELSE /\ expense_regex' = made.expense_regex
               /\ date_regexes' = ConvertDateFormatsToPatterns(schema.date_formats)
               /\ pc' = "loaded"
    /\ UNCHANGED <<schema, payment_methods_by_prefix_and_postfix, fields,
                   field_positions, parser_vars>>

\* RegexGenerator.create_final_regex of parser.py line 104: the composite
\* pattern of the compiled schema, each placeholder's grouped sub-pattern in
\* template order
RegexGeneratorCreateFinalRegex(positions, field_objects) ==
    CreateFinalRegex(positions, field_objects,
                     { <<n>> : n \in MandatoryExpenseField }).expense_regex

\* ExpenseInputFileParser.__init__
NewParser ==
    /\ pc = "loaded"
    /\ expense_regex' = RegexGeneratorCreateFinalRegex(field_positions, fields)
    /\ multi_line_expense_open_chars' = GetMultilineExpenseOpenChars(schema)
    /\ multi_line_expense_close_chars' = GetMultilineExpenseCloseChars(schema)
    /\ multiline_start_idx' = -1
    /\ multiline_end_idx' = -1
    /\ line_ranges_of_blocks' = <<>>
    /\ excluded_lines' = <<>>
    /\ inside_multiline' = FALSE
    /\ pc' = "ready"
    /\ UNCHANGED <<schema, payment_methods_by_prefix_and_postfix, date_regexes,
                   fields, field_positions, raised_args, file, lines_of_file,
                   idx, lines_by_ranges, returned, calls, raised>>

\* parse, lines 116-117: read the file and split it into lines.  Every call
\* is given the same file.
ParseBegin ==
    /\ pc = "ready"
    /\ calls < MaxCalls
    /\ \E f \in Files :
         /\ calls > 0 => f = file
         /\ file' = f
         /\ lines_of_file' = SplitLines(f)
    /\ idx' = 0
    /\ calls' = calls + 1
    /\ pc' = "scan"
    /\ UNCHANGED <<config_vars, marker_vars, scan_vars, block_vars,
                   lines_by_ranges, returned, raised>>

\* parse, lines 118-124: one iteration of the scan
ScanLine ==
    /\ pc = "scan"
    /\ LET line == lines_of_file[idx + 1] IN
       IF DetermineIfLineExcluded(line, date_regexes)
       THEN /\ excluded_lines' = Append(excluded_lines, idx)
            /\ UNCHANGED <<line_ranges_of_blocks, block_vars>>
       ELSE LET got == GetLineRangesOfBlocks(
                           line, idx,
                           [inside_multiline |-> inside_multiline,
                            multiline_start_idx |-> multiline_start_idx,
                            multiline_end_idx |-> multiline_end_idx],
                           excluded_lines,
                           multi_line_expense_open_chars,
                           multi_line_expense_close_chars)
            IN /\ inside_multiline' = got.st.inside_multiline
               /\ multiline_start_idx' = got.st.multiline_start_idx
               /\ multiline_end_idx' = got.st.multiline_end_idx
               /\ line_ranges_of_blocks' =
                      IF got.ret \notin {MULTI_LINE_EXPENSE_CONTINUED,
                                         MULTI_LINE_EXPENSE_HEADER}
                      THEN Append(line_ranges_of_blocks, got.ret)
                      ELSE line_ranges_of_blocks
               /\ UNCHANGED excluded_lines
    /\ idx' = idx + 1
    /\ pc' = IF idx + 1 = Len(lines_of_file) THEN "process" ELSE "scan"
    /\ UNCHANGED <<config_vars, marker_vars, file, lines_of_file,
                   lines_by_ranges, returned, calls, raised>>

\* parse, lines 126-128: _process_line_ranges and the return
ProcessRanges ==
    /\ pc = "process"
    /\ LET by == GetLinesByRanges(lines_of_file, line_ranges_of_blocks,
                                  excluded_lines)
       IN IF by.raised # None
          THEN /\ raised' = by.raised
               /\ pc' = "raised"
               /\ UNCHANGED <<lines_by_ranges, returned>>
          ELSE LET done == ProcessLineRanges(
                               by.result, schema,
                               payment_methods_by_prefix_and_postfix)
               IN /\ lines_by_ranges' = by.result
                  /\ IF done.raised # None
                     THEN /\ raised' = done.raised
                          /\ pc' = "raised"
                          /\ UNCHANGED returned
                     ELSE /\ returned' = Append(returned, done.parsed_expenses)
                          /\ pc' = "ready"
                          /\ UNCHANGED raised
    /\ UNCHANGED <<config_vars, marker_vars, file, lines_of_file, idx,
                   scan_vars, block_vars, calls>>

Next ==
    \/ LoadConfig \/ ValidateConfig \/ ReaderPostInit
    \/ NewParser \/ ParseBegin \/ ScanLine \/ ProcessRanges

Spec == Init /\ [][Next]_vars

\* The reader alone, over the schema documents of ReaderSchemas
InitReader == InitWith(ReaderSchemas)
NextReader == LoadConfig \/ ValidateConfig \/ ReaderPostInit
SpecReader == InitReader /\ [][NextReader]_vars

(***************************************************************************)
(* Vocabulary of the properties                                            *)
(***************************************************************************)
IndexError == "IndexError: list index out of range"
UnrecognizedError == "ValueError: Found unrecognized payment methods"

\* Line i (Python index) of the file being parsed
LineAt(i) == lines_of_file[i + 1]
IsDateLine(line) ==
    \E k \in 1..Len(schema.date_formats) :
        DateRegexMatch(ConvertDateFormat(schema.date_formats[k]), line)
HasOpenMarker(line) ==
    \E k \in 1..Len(schema.expense_more_details_separator_strings) :
        StrContains(schema.expense_more_details_separator_strings[k], line)
HasCloseMarker(line) ==
    \E k \in 1..Len(schema.expense_more_details_close_strings) :
        StrContains(schema.expense_more_details_close_strings[k], line)
IsBlank(line) == line = <<>> \/ IsSpace(line)

SetMax(S) == CHOOSE m \in S : \A x \in S : x <= m

\* No date is in effect
NoDate == <<>>

\* Text of the last date line with an index below i, if there is one
NearestPrecedingDate(i) ==
    LET ds == { j \in 0..(i - 1) : IsDateLine(LineAt(j)) } IN
    IF ds = {} THEN NoDate ELSE LineAt(SetMax(ds))

\* The result of the most recent parse call that returned
LastReturned == returned[Len(returned)]

\* C1: every block handed on by _get_lines_by_ranges carries the text of the
\* nearest date line that precedes the block, also when several date lines
\* lie between two blocks, when a block precedes the first date line and
\* when the file has no date line (parse then does not fail on the lookup).
C1_DateIsNearestPrecedingDateLine ==
    /\ raised # IndexError
    /\ \A k \in 1..Len(lines_by_ranges) :
          (k <= Len(line_ranges_of_blocks) /\ line_ranges_of_blocks[k] # NoneRange)
          => lines_by_ranges[k].date =
                 NearestPrecedingDate(line_ranges_of_blocks[k][1])

\* The line that opened the block the segmenter is inside of: a non-date
\* line below idx holding an open marker, with no closing line after it.
OpeningLineRemembered ==
    /\ multiline_start_idx \in 0..(idx - 1)
    /\ ~IsDateLine(LineAt(multiline_start_idx))
    /\ HasOpenMarker(LineAt(multiline_start_idx))
    /\ \A j \in (multiline_start_idx + 1)..(idx - 1) :
          IsDateLine(LineAt(j)) \/ ~HasCloseMarker(LineAt(j))

\* C2: in the scan of a parse that starts outside a block, a non-date line
\* with an open marker met outside moves the segmenter inside and emits
\* nothing; a non-date line without close marker met inside emits nothing
\* and stays inside; a non-date line with a close marker met inside moves
\* it outside and emits exactly the block (index of the opening line,
\* index of this line).
C2_SegmenterOpensContinuesCloses ==
    [][ (pc = "scan" /\ ~IsDateLine(LineAt(idx))) =>
          /\ (calls = 1 /\ inside_multiline) => OpeningLineRemembered
          /\ (~inside_multiline /\ HasOpenMarker(LineAt(idx))) =>
                /\ inside_multiline'
                /\ multiline_start_idx' = idx
                /\ line_ranges_of_blocks' = line_ranges_of_blocks
          /\ (inside_multiline /\ ~HasCloseMarker(LineAt(idx))) =>
                /\ inside_multiline'
                /\ multiline_start_idx' = multiline_start_idx
                /\ line_ranges_of_blocks' = line_ranges_of_blocks
          /\ (inside_multiline /\ HasCloseMarker(LineAt(idx))) =>
                /\ ~inside_multiline'
                /\ line_ranges_of_blocks' =
                       Append(line_ranges_of_blocks, <<multiline_start_idx, idx>>)
      ]_vars

\* C2 witness: the first parse has closed a multi-line block that was
\* continued over at least one line.
C2_Witness ==
    /\ calls = 1
    /\ ~inside_multiline
    /\ \E k \in 1..Len(line_ranges_of_blocks) :
          /\ line_ranges_of_blocks[k] # NoneRange
          /\ line_ranges_of_blocks[k][2] > line_ranges_of_blocks[k][1] + 1

\* C3: the list of block ranges holds only (start, end) index pairs, one
\* per single-line entry or closed multi-line block; a blank or
\* whitespace-only line met outside a block adds nothing to it.
C3_BlankLineAddsNoRange ==
    \A k \in 1..Len(line_ranges_of_blocks) :
        /\ Len(line_ranges_of_blocks[k]) = 2
        /\ line_ranges_of_blocks[k][1] \in 0..(Len(lines_of_file) - 1)
        /\ line_ranges_of_blocks[k][1] <= line_ranges_of_blocks[k][2]
        /\ ~IsBlank(LineAt(line_ranges_of_blocks[k][1]))

\* C4: a date line is recorded in excluded_lines and is not part of any
\* block: the lines joined as the text of a block are those of its range
\* whose index is not in excluded_lines, also for a date line between the
\* opening and the closing line of a multi-line block.
C4_DateLineInNoBlock ==
    /\ \A k \in 1..Len(excluded_lines) : IsDateLine(LineAt(excluded_lines[k]))
    /\ \A k \in 1..Len(lines_by_ranges) :
          \A j \in 1..Len(lines_by_ranges[k].list_of_lines) :
              ~IsDateLine(lines_by_ranges[k].list_of_lines[j])

\* C5: two successive parse calls on the same file with the same schema
\* return identical sequences.
C5_SecondParseReturnsTheSame ==
    \A k \in 2..Len(returned) : returned[k] = returned[1]

\* The composite pattern matches the joined text of block b
BlockMatches(b) == ExpenseRegexMatch(JoinLines(b.list_of_lines)).matched
BlockGroups(b) == ExpenseRegexMatch(JoinLines(b.list_of_lines))

\* The blocks of the last _process_line_ranges whose text matches, in file order
MatchingBlocks == SelectSeq(lines_by_ranges, BlockMatches)

\* A parse call has just returned: lines_by_ranges and LastReturned are its own
JustReturned == pc = "ready" /\ returned # <<>>

\* Entry e was built from the groups of block b
BuiltFrom(e, b) ==
    /\ e.date = b.date
    /\ e.payment_method_marker = BlockGroups(b).PAYMENT_METHOD_MARKER
    /\ e.payment_method_postfix = BlockGroups(b).PAYMENT_METHOD_POSTFIX
    /\ e.amount.value = BlockGroups(b).AMOUNT
    /\ e.title = BlockGroups(b).TITLE
    /\ e.more_details = BlockGroups(b).MORE_DETAILS

\* C6: the sequence returned by parse holds exactly one entry for each block
\* whose joined text matches the composite pattern, in file order, and none
\* for a block that does not match, wherever the non-matching blocks are.
C6_NonMatchingBlocksSkipped ==
    JustReturned =>
        /\ Len(LastReturned) = Len(MatchingBlocks)
        /\ \A k \in 1..Len(LastReturned) :
              BuiltFrom(LastReturned[k], MatchingBlocks[k])

\* C6 witness: a parse returned an entry for a matching block that came
\* after a non-matching one.
C6_Witness ==
    /\ JustReturned
    /\ LastReturned # <<>>
    /\ \E i, j \in 1..Len(lines_by_ranges) :
          /\ i < j
          /\ ~BlockMatches(lines_by_ranges[i])
          /\ BlockMatches(lines_by_ranges[j])

IsIncomeMarker(m) == m = schema.income_symbol
IsSpecialMarker(m) == m \in schema.special_item_prefixes
IsRegistered(m, postfix) ==
    <<m, postfix>> \in DOMAIN payment_methods_by_prefix_and_postfix

Classified(e) ==
    LET m == e.payment_method_marker
        key == <<m, e.payment_method_postfix>>
    IN /\ e.item_type \in {INCOME, SPECIAL, EXPENSE}
       /\ IsIncomeMarker(m) => e.item_type = INCOME
       /\ (~IsIncomeMarker(m) /\ IsSpecialMarker(m)) => e.item_type = SPECIAL
       /\ (~IsIncomeMarker(m) /\ ~IsSpecialMarker(m)) =>
             /\ e.item_type = EXPENSE
             /\ IsRegistered(m, e.payment_method_postfix) =>
                    e.payment_method = payment_methods_by_prefix_and_postfix[key]
       /\ e.payment_method # NonePaymentMethod => e.item_type = EXPENSE

\* C7: every returned entry is classified by precedence: Income when its
\* marker is the income symbol, whatever the registry and the special
\* prefixes hold; else Special when the marker is a special prefix; else
\* Expense, with the payment method registered under (marker, postfix) when
\* there is one.  Only Expense entries carry a payment method.
C7_ClassificationPrecedence ==
    \A r \in 1..Len(returned) :
        \A k \in 1..Len(returned[r]) : Classified(returned[r][k])

\* C7 witness: a returned Income entry whose marker is also a special prefix
\* and whose (marker, postfix) is a key of the registry.
C7_Witness ==
    \E r \in 1..Len(returned) : \E k \in 1..Len(returned[r]) :
        LET e == returned[r][k] IN
        /\ IsIncomeMarker(e.payment_method_marker)
        /\ IsSpecialMarker(e.payment_method_marker)
        /\ IsRegistered(e.payment_method_marker, e.payment_method_postfix)
        /\ e.item_type = INCOME

\* Block b matches and its marker is neither income nor special nor registered
Unrecognized(b) ==
    /\ BlockMatches(b)
    /\ ~IsIncomeMarker(BlockGroups(b).PAYMENT_METHOD_MARKER)
    /\ ~IsSpecialMarker(BlockGroups(b).PAYMENT_METHOD_MARKER)
    /\ ~IsRegistered(BlockGroups(b).PAYMENT_METHOD_MARKER,
                     BlockGroups(b).PAYMENT_METHOD_POSTFIX)

\* C8: with fail_on_unrecognized_payments set, a parse that meets an
\* unrecognized entry raises and returns nothing; with the flag not set the
\* entry is kept as an Expense without payment method and the remaining
\* blocks are processed.  The error is raised only for an unrecognized
\* entry under the flag.
C8_FailOnUnrecognizedPayments ==
    /\ raised = UnrecognizedError =>
          /\ schema.fail_on_unrecognized_payments
          /\ pc = "raised"
          /\ Len(returned) < calls
          /\ \E k \in 1..Len(lines_by_ranges) : Unrecognized(lines_by_ranges[k])
    /\ JustReturned =>
          IF schema.fail_on_unrecognized_payments
          THEN \A k \in 1..Len(lines_by_ranges) : ~Unrecognized(lines_by_ranges[k])
          ELSE /\ Len(LastReturned) = Len(MatchingBlocks)
               /\ \A k \in 1..Len(LastReturned) :
                     Unrecognized(MatchingBlocks[k]) =>
                         /\ LastReturned[k].item_type = EXPENSE
                         /\ LastReturned[k].payment_method = NonePaymentMethod

\* C8 witness: the flag is set and parse raised on an unrecognized entry
\* that came after a recognized one.
C8_Witness ==
    /\ raised = UnrecognizedError
    /\ \E i, j \in 1..Len(lines_by_ranges) :
          /\ i < j
          /\ BlockMatches(lines_by_ranges[i])
          /\ ~Unrecognized(lines_by_ranges[i])
          /\ Unrecognized(lines_by_ranges[j])

\* C9: the amount of every returned entry is the integer got from the
\* matched amount text by removing the thousands separators.
C9_AmountIsConvertedInteger ==
    JustReturned =>
        \A k \in 1..Len(LastReturned) :
            k <= Len(MatchingBlocks) =>
                /\ LastReturned[k].amount.py_type = "int"
                /\ LastReturned[k].amount.value =
                       ConvertAmountStr(BlockGroups(MatchingBlocks[k]).AMOUNT,
                                        schema.thousands_separator_chars).value

\* The postfix of an entry written without postfix
NoPostfix == <<>>

\* The keys the registry holds for pm's configured postfix symbols
PostfixKeys(pm) ==
    { <<pm.prefix_symbol, FindAllAlnumRuns(pm.postfix_symbols[i])[1]>> :
        i \in 1..Len(pm.postfix_symbols) }

\* The registry maps some key (prefix marker of pm, no postfix) to pm
HasNoPostfixKey(pm) ==
    \E key \in DOMAIN payment_methods_by_prefix_and_postfix :
        /\ key[1] = pm.prefix_symbol
        /\ key \notin PostfixKeys(pm)
        /\ payment_methods_by_prefix_and_postfix[key] = pm

\* C10: after a successful load the registry has a key (prefix marker, no
\* postfix) for every payment method that is not mandatory-postfix, and a
\* returned entry with that marker and no postfix is an Expense resolved to
\* that payment method.
C10_NoPostfixKeyRegistered ==
    pc \notin {"load", "config_error"} =>
        \A i \in 1..Len(schema.payment_methods) :
            LET pm == schema.payment_methods[i] IN
            pm.name \notin schema.mandatory_postfix_for_payment_methods =>
                /\ HasNoPostfixKey(pm)
                /\ \A r \in 1..Len(returned) : \A k \in 1..Len(returned[r]) :
                      LET e == returned[r][k] IN
                      ( /\ e.payment_method_marker = pm.prefix_symbol
                        /\ e.payment_method_postfix = NoPostfix
                        /\ ~IsIncomeMarker(pm.prefix_symbol)
                        /\ ~IsSpecialMarker(pm.prefix_symbol) )
                      => /\ e.item_type = EXPENSE
                         /\ e.payment_method # NonePaymentMethod
                         /\ e.payment_method.display_name = pm.display_name

(***************************************************************************)
(* C11  Duplicate (prefixMarker, sanitizedPostfix) keys                    *)
(***************************************************************************)
\* The alphanumeric-and-space substring of a configured postfix: its first
\* run of such characters, <<>> when it has none
SanitizedPostfix(postfix) ==
    LET starts == { i \in 1..Len(postfix) : postfix[i] \in Alnum \cup {" "} } IN
    IF starts = {} THEN <<>>
    ELSE LET a == CHOOSE i \in starts : \A j \in starts : i <= j
             b == CHOOSE k \in a..Len(postfix) :
                      /\ \A j \in a..k : j \in starts
                      /\ (k + 1) \notin starts
         IN SubSeq(postfix, a, b)

\* The keys a payment method declares
DeclaredKeys(pm) ==
    { <<pm.prefix_symbol, SanitizedPostfix(pm.postfix_symbols[i])>> :
          i \in 1..Len(pm.postfix_symbols) }

\* Every configured postfix has a sanitized part
AllPostfixesSanitizable ==
    \A i \in 1..Len(schema.payment_methods) :
        \A k \in 1..Len(schema.payment_methods[i].postfix_symbols) :
            SanitizedPostfix(schema.payment_methods[i].postfix_symbols[k]) # <<>>

\* Two payment methods of the document yield the same key
HasDuplicateKey ==
    \E i, j \in 1..Len(schema.payment_methods) :
        i < j /\ DeclaredKeys(schema.payment_methods[i])
                 \cap DeclaredKeys(schema.payment_methods[j]) # {}

\* __post_init__ has run
PostInitDone == pc # "load"

\* No payment method yields the same key from two of its own postfixes
NoKeyTwiceInOneMethod ==
    \A i \in 1..Len(schema.payment_methods) :
        LET ps == schema.payment_methods[i].postfix_symbols IN
        \A k, l \in 1..Len(ps) :
            k # l => SanitizedPostfix(ps[k]) # SanitizedPostfix(ps[l])

\* The load failed with an error that shows a key and two different payment
\* methods of the document that both declare it
FailedNamingKeyAndBoth ==
    /\ pc = "config_error"
    /\ raised = "ValueError: Duplicate prefix+postfix key"
    /\ LET pms == raised_args.payment_methods_with_dupe_key IN
       /\ Len(pms) = 2
       /\ pms[1] # pms[2]
       /\ \A k \in 1..2 :
             /\ \E i \in 1..Len(schema.payment_methods) :
                    schema.payment_methods[i] = pms[k]
             /\ raised_args.key \in DeclaredKeys(pms[k])

\* Each key of the registry maps to the one payment method that declares it
RegistryMapsDeclaringMethod ==
    \A key \in DOMAIN payment_methods_by_prefix_and_postfix :
        \A i \in 1..Len(schema.payment_methods) :
            key \in DeclaredKeys(schema.payment_methods[i])
            <=> schema.payment_methods[i] =
                    payment_methods_by_prefix_and_postfix[key]

\* __post_init__ raised one of its two errors
PostInitFailed ==
    /\ pc = "config_error"
    /\ raised \in {"ValueError: Postfix is invalid",
                   "ValueError: Duplicate prefix+postfix key"}

\* C11 as stated: once the payment methods of any document are registered,
\* the load has failed if two payment methods yield the same (prefix,
\* sanitized postfix) key, with an error that shows that key and both
\* conflicting payment methods; and when registering did not fail, each key
\* of the registry maps to the single payment method that declares it.
C11_DuplicateKeyFailsLoad ==
    PostInitDone =>
        /\ HasDuplicateKey => FailedNamingKeyAndBoth
        /\ ~PostInitFailed => RegistryMapsDeclaringMethod

\* C11 amended: for a document in which every postfix has a sanitized part
\* and no payment method yields the same key twice by itself, the load has
\* failed naming the key and both conflicting payment methods if two payment
\* methods yield the same key, and otherwise registering has not failed and
\* the registry has exactly the declared keys, each mapped to the one
\* payment method that declares it. For every other document registering
\* fails with the invalid-postfix error or the duplicate-key error.
C11_DuplicateKeyFailsLoadWhenPostfixesValid ==
    PostInitDone =>
        IF AllPostfixesSanitizable /\ NoKeyTwiceInOneMethod
        THEN IF HasDuplicateKey
             THEN FailedNamingKeyAndBoth
             ELSE /\ ~PostInitFailed
                  /\ DOMAIN payment_methods_by_prefix_and_postfix =
                         UNION { DeclaredKeys(schema.payment_methods[i]) :
                                     i \in 1..Len(schema.payment_methods) }
                  /\ RegistryMapsDeclaringMethod
        ELSE PostInitFailed

\* A load that failed on a duplicate key among three or more payment methods
\* where the conflicting ones are not the first two of the document
C11_Witness ==
    /\ pc = "config_error"
    /\ raised = "ValueError: Duplicate prefix+postfix key"
    /\ AllPostfixesSanitizable
    /\ NoKeyTwiceInOneMethod
    /\ HasDuplicateKey
    /\ Len(schema.payment_methods) > 2
    /\ raised_args.payment_methods_with_dupe_key[1] # schema.payment_methods[1]

(***************************************************************************)
(* C12  Valid documents load; one distinct named group per placeholder     *)
(***************************************************************************)
\* The placeholder names of the format template, in template order
Placeholders == FindAllFieldFormat(schema.format_string)

MandatoryNames == { <<n>> : n \in MandatoryExpenseField }

\* Number of occurrences of name among the first i placeholders
Occurrences(name, i) == Cardinality({ j \in 1..i : Placeholders[j] = name })

\* The patterns a field may have once its variable references are replaced
ResolvedValues(value) ==
    ResolveVariables(schema.variables, value,
                     SeqToSet(FindAllVarPattern(value)) \cap DOMAIN schema.variables)

\* The field/placeholder invariants of a schema document, and payment
\* methods that register without error
ValidDocument ==
    /\ Placeholders # <<>>
    /\ \A i \in 1..Len(Placeholders) : Placeholders[i] \in FieldKeys(schema.fields)
    /\ MandatoryNames \subseteq FieldKeys(schema.fields)
    /\ \A name \in MandatoryNames : Occurrences(name, Len(Placeholders)) <= 1
    /\ \A i \in 1..Len(schema.fields) :
          LET f == schema.fields[i].field IN
          /\ SeqToSet(FindAllVarPattern(f.value)) \subseteq DOMAIN schema.variables
          /\ f.extract_inner_group =>
                /\ f.type = "regex"
                /\ \A v \in ResolvedValues(f.value) :
                       CountChar(v, "(") = 1 /\ CountChar(v, ")") = 1
    /\ AllPostfixesSanitizable
    /\ ~HasDuplicateKey
    /\ NoKeyTwiceInOneMethod

\* The names of the named groups of a pattern, left to right
RECURSIVE GroupNames(_)
GroupNames(rx) ==
    IF Len(rx) < 4 THEN <<>>
    ELSE IF Take(rx, 4) = <<"(", "?", "P", "<">>
         THEN LET n == FindChar(Drop(rx, 4), ">") IN
              <<SubSeq(rx, 5, 4 + n)>> \o GroupNames(Drop(rx, 4 + n))
         ELSE GroupNames(Tail(rx))

\* The group name the claim gives to placeholder occurrence i
ExpectedGroupName(i) ==
    LET k == Occurrences(Placeholders[i], i) IN
    IF k = 1 THEN Placeholders[i]
    ELSE Placeholders[i] \o <<"_">> \o IntToStr(k)

PairwiseDistinct(q) == \A i, j \in 1..Len(q) : i # j => q[i] # q[j]

LoaderDone == pc \in {"config_error", "loaded"}

\* C12: when the loader is done with a document that satisfies the
\* field/placeholder invariants it has not raised, and the groups of the
\* composite pattern are, in template order, one per placeholder occurrence,
\* named after the field for a first occurrence and with the counter suffix
\* for a repeat, all names pairwise distinct.
C12_ValidDocumentLoads ==
    (LoaderDone /\ ValidDocument) =>
        /\ pc = "loaded"
        /\ GroupNames(expense_regex) =
               [i \in 1..Len(Placeholders) |-> ExpectedGroupName(i)]
        /\ PairwiseDistinct(GroupNames(expense_regex))

(***************************************************************************)
(* C13  Missing mandatory fields and undefined placeholders                *)
(***************************************************************************)
\* The mandatory names the configured fields lack
MissingMandatory == MandatoryNames \ FieldKeys(schema.fields)

\* The placeholders of the template that have no Field Definition
UndefinedPlaceholders == SeqToSet(Placeholders) \ FieldKeys(schema.fields)

\* The errors of the loader that show field names
MissingFieldErrors ==
    { "ValueError: Found unknown field names",
      "ValueError: The following fields are not having the field config object" }

\* The payment methods register without error: every postfix has a
\* sanitized part and no key is declared twice
PaymentMethodsRegister ==
    /\ AllPostfixesSanitizable
    /\ ~HasDuplicateKey
    /\ \A i \in 1..Len(schema.payment_methods) :
          LET ps == schema.payment_methods[i].postfix_symbols IN
          \A k, l \in 1..Len(ps) :
              k # l => SanitizedPostfix(ps[k]) # SanitizedPostfix(ps[l])

\* C13 as stated: when the loader is done with a document that lacks a
\* mandatory field or has a placeholder without Field Definition, it has
\* raised an error that names missing fields, and expense_regex is not set.
C13_MissingFieldNamed ==
    (LoaderDone /\ (MissingMandatory # {} \/ UndefinedPlaceholders # {})) =>
        /\ pc = "config_error"
        /\ raised \in MissingFieldErrors
        /\ raised_args # {}
        /\ raised_args \subseteq MissingMandatory \cup UndefinedPlaceholders
        /\ expense_regex = None

\* C13 amended: for a document whose payment methods register without error
\* and whose template has at least one placeholder, the loader, when done,
\* has raised the error that names exactly the missing mandatory fields if
\* there are any, and otherwise the error that names exactly the placeholders
\* without Field Definition if there are any; expense_regex is not set.
C13_MissingFieldNamedWhenReached ==
    (LoaderDone /\ PaymentMethodsRegister /\ Placeholders # <<>>) =>
        /\ MissingMandatory # {} =>
              /\ pc = "config_error"
              /\ raised = "ValueError: Found unknown field names"
              /\ raised_args = MissingMandatory
              /\ expense_regex = None
        /\ (MissingMandatory = {} /\ UndefinedPlaceholders # {}) =>
              /\ pc = "config_error"
              /\ raised =
                   "ValueError: The following fields are not having the field config object"
              /\ raised_args = UndefinedPlaceholders
              /\ expense_regex = None

\* A failed load of a document that lacks a mandatory field and whose
\* template also has a placeholder, not that field, without Field Definition
C13_Witness ==
    /\ pc = "config_error"
    /\ PaymentMethodsRegister
    /\ Placeholders # <<>>
    /\ MissingMandatory # {}
    /\ UndefinedPlaceholders \ MissingMandatory # {}

(***************************************************************************)
(* C15  extractInnerGroup keeps the quantifier of the group                *)
(***************************************************************************)
QuantifierChars == {"*", "+", "?"}

\* The parts of a pattern pre + "(" + inner + ")" + q + post that has one
\* opening and one closing parenthesis
PatternParts(v) ==
    LET o == CHOOSE i \in 1..Len(v) : v[i] = "("
        c == CHOOSE i \in 1..Len(v) : v[i] = ")"
        q == IF c < Len(v) /\ v[c + 1] \in QuantifierChars THEN <<v[c + 1]>> ELSE <<>>
    IN [pre |-> SubSeq(v, 1, o - 1), inner |-> SubSeq(v, o + 1, c - 1), q |-> q,
        post |-> SubSeq(v, c + 1 + Len(q), Len(v))]

\* The sub-patterns that keep pre and post, wrap only inner in the group
\* called name and attach q once to that group (inside or right after it)
QuantifierKept(name, v) ==
    LET p == PatternParts(v) IN
    { p.pre \o NamedGroup(name, p.inner \o p.q) \o p.post,
      p.pre \o NamedGroup(name, p.inner) \o p.q \o p.post }

\* _validate has passed, so _create_regex is applied to the fields
FieldsValidated ==
    \/ pc \in {"validated", "loaded"}
    \/ /\ pc = "config_error"
       /\ raised \in {StringIndexError, "ValueError: Group name is already used in regex"}

\* C15: for every validated field with extractInnerGroup set, _create_regex
\* does not raise and returns pre and post unchanged around the named group
\* of inner, the quantifier q attached once to it; also when the closing
\* parenthesis is the last character.
C15_ExtractInnerGroupKeepsQuantifier ==
    FieldsValidated =>
        \A i \in 1..Len(fields) :
            fields[i].field.extract_inner_group =>
                LET made == CreateRegex(fields[i].name, fields[i].field) IN
                /\ made.raised = None
                /\ made.value \in QuantifierKept(fields[i].name, fields[i].field.value)

(***************************************************************************)
(* C14  An unterminated multi-line block at end of file                    *)
(***************************************************************************)
\* The first parse call is over and ended inside a block: a line opened a
\* block and no later line closed it
UnterminatedAtEnd ==
    /\ calls = 1
    /\ pc \in {"ready", "raised"}
    /\ inside_multiline

\* The emitted ranges, as (start, end) pairs
EmittedRanges ==
    { k \in 1..Len(line_ranges_of_blocks) : line_ranges_of_blocks[k] # NoneRange }

\* The joined text of the lines start..end of the file
RangeText(r) == JoinLines(SubSeq(lines_of_file, r[1] + 1, r[2] + 1))

\* C14: a first parse that ends inside an unterminated block has not raised
\* (other than by the fail-on-unrecognized-payment policy); when it returns,
\* every emitted block lies before the opening line and the result has one
\* entry per emitted block whose text matches, none for the unterminated one.
C14_UnterminatedBlockDropped ==
    UnterminatedAtEnd =>
        /\ raised \in {None, UnrecognizedError}
        /\ pc = "ready" =>
              /\ \A k \in EmittedRanges :
                     line_ranges_of_blocks[k][2] < multiline_start_idx
              /\ Len(LastReturned) =
                     Cardinality({ k \in EmittedRanges :
                         ExpenseRegexMatch(RangeText(line_ranges_of_blocks[k])).matched })

(***************************************************************************)
(* C16  A block is not closed by the line that opened it                   *)
(***************************************************************************)
\* C16: in every scan step on a non-date line: a line with both an open and
\* a close marker met outside a block only opens the block (nothing is
\* emitted); a line without close marker met inside is absorbed (nothing is
\* emitted); a line with a close marker met inside emits the block
\* (start, idx) and start < idx.
C16_OpeningLineDoesNotClose ==
    [][ (pc = "scan" /\ ~IsDateLine(LineAt(idx))) =>
          /\ (~inside_multiline /\ HasOpenMarker(LineAt(idx))
                                /\ HasCloseMarker(LineAt(idx))) =>
                /\ inside_multiline'
                /\ multiline_start_idx' = idx
                /\ line_ranges_of_blocks' = line_ranges_of_blocks
          /\ (inside_multiline /\ ~HasCloseMarker(LineAt(idx))) =>
                /\ inside_multiline'
                /\ line_ranges_of_blocks' = line_ranges_of_blocks
          /\ (inside_multiline /\ HasCloseMarker(LineAt(idx))) =>
                /\ Len(line_ranges_of_blocks') = Len(line_ranges_of_blocks) + 1
                /\ LET block == line_ranges_of_blocks'[Len(line_ranges_of_blocks')] IN
                   /\ block[2] = idx
                   /\ block[1] < block[2]
      ]_vars

====
